---- MODULE Spec2Model ----
(***************************************************************************)
(* Daily Expense Tracker (src/app.py): the expenses table with its startup *)
(* schema migration, the date normalizer, the month arithmetic, the daily  *)
(* and monthly aggregates and the /add and /delete handlers.               *)
(*                                                                         *)
(* Strings whose characters the code inspects (dates, item types, the     *)
(* error detail) are sequences of one-character strings.  An Optional     *)
(* argument is <<>> (None) or <<v>>.  Money: quantity is counted in        *)
(* tenths, unit_price in hundredths, so quantity * unit_price is counted   *)
(* in thousandths and round(x, 2) is a real rounding step.  item_name and  *)
(* created_at are stored but read by no query and are left out of a row.   *)
(***************************************************************************)
EXTENDS Integers, Sequences, FiniteSets, TLC

VARIABLES
    phase,      \* "down" | "serving" | "failed": the process (on_startup ran, or raised)
    schema,     \* sqlite_master's CREATE TABLE text of expenses, by the features the code greps
    rows,       \* the rows of table expenses
    seq,        \* sqlite_sequence of expenses (AUTOINCREMENT)
    staging,    \* whether table expenses_new exists
    resp,       \* the response (or startup outcome) of the last handler that ran
    req,        \* history: the request that handler served and the rows before it
    d_arg,      \* normalize_date / month_bounds_and_label: the argument of the call
    d_ret       \* ... what the calls made so far returned or raised, in order

vars == <<phase, schema, rows, seq, staging, resp, req, d_arg, d_ret>>

appVars == <<phase, schema, rows, seq, staging, resp, req>>

dateVars == <<d_arg, d_ret>>

---------------------------------------------------------------------------
(* Characters and strings *)

Digits == <<"0", "1", "2", "3", "4", "5", "6", "7", "8", "9">>

\* The characters of the model in code point order (sqlite compares TEXT bytewise).
Alphabet == <<" ", "-", "/">> \o Digits \o <<":", "T", "W", "x">>

Ord(c) == CHOOSE i \in 1..Len(Alphabet) : Alphabet[i] = c

IsDigit(c) == \E i \in 1..Len(Digits) : Digits[i] = c

DigitVal(c) == (CHOOSE i \in 1..Len(Digits) : Digits[i] = c) - 1

AllDigits(s) == \A i \in 1..Len(s) : IsDigit(s[i])

RECURSIVE ToInt(_)
ToInt(s) ==
    IF s = <<>> THEN 0
    ELSE 10 * ToInt(SubSeq(s, 1, Len(s) - 1)) + DigitVal(s[Len(s)])

RECURSIVE Decimal(_)
Decimal(n) ==
    IF n < 10 THEN <<Digits[n + 1]>>
    ELSE Decimal(n \div 10) \o <<Digits[(n % 10) + 1]>>

RECURSIVE ZFill(_, _)
ZFill(s, w) == IF Len(s) >= w THEN s ELSE ZFill(<<"0">> \o s, w)

\* s < t and s <= t as sqlite's BINARY collation orders TEXT values.
RECURSIVE StrLess(_, _)
StrLess(s, t) ==
    IF t = <<>> THEN FALSE
    ELSE IF s = <<>> THEN TRUE
    ELSE IF s[1] # t[1] THEN Ord(s[1]) < Ord(t[1])
    ELSE StrLess(Tail(s), Tail(t))

StrLeq(s, t) == s = t \/ StrLess(s, t)

\* The fields of s between occurrences of the one-character separator sep.
RECURSIVE Split(_, _)
Split(s, sep) ==
    IF \A i \in 1..Len(s) : s[i] # sep THEN <<s>>
    ELSE LET k == CHOOSE i \in 1..Len(s) :
                      s[i] = sep /\ \A j \in 1..(i - 1) : s[j] # sep
         IN  <<SubSeq(s, 1, k - 1)>> \o Split(SubSeq(s, k + 1, Len(s)), sep)

---------------------------------------------------------------------------
(* Results: a call returns a value or raises *)

Ret(v) == [ok |-> TRUE, val |-> v, exc |-> "", status_code |-> 0, detail |-> <<>>]

Raise(e) == [ok |-> FALSE, val |-> <<>>, exc |-> e, status_code |-> 0, detail |-> <<>>]

HTTPException(code, msg) ==
    [ok |-> FALSE, val |-> <<>>, exc |-> "HTTPException", status_code |-> code, detail |-> msg]

---------------------------------------------------------------------------
(* datetime.date *)

MINYEAR == 1

MAXYEAR == 9999

IsLeap(y) == y % 4 = 0 /\ (y % 100 # 0 \/ y % 400 = 0)

DAYS_IN_MONTH == <<31, 28, 31, 30, 31, 30, 31, 31, 30, 31, 30, 31>>

DaysInMonth(y, m) == IF m = 2 /\ IsLeap(y) THEN 29 ELSE DAYS_IN_MONTH[m]

RECURSIVE DaysBeforeMonth(_, _)
DaysBeforeMonth(y, m) ==
    IF m = 1 THEN 0 ELSE DaysBeforeMonth(y, m - 1) + DaysInMonth(y, m - 1)

DaysBeforeYear(y) ==
    (y - 1) * 365 + ((y - 1) \div 4) - ((y - 1) \div 100) + ((y - 1) \div 400)

\* date(year, month, day): ValueError outside the calendar.
DateNew(y, m, d) ==
    IF /\ MINYEAR <= y /\ y <= MAXYEAR
       /\ 1 <= m /\ m <= 12
       /\ 1 <= d /\ d <= DaysInMonth(y, m)
    THEN Ret([year |-> y, month |-> m, day |-> d])
    ELSE Raise("ValueError")

toordinal(dt) == DaysBeforeYear(dt.year) + DaysBeforeMonth(dt.year, dt.month) + dt.day

\* date.fromordinal: the proleptic Gregorian date of day number n (1 = 0001-01-01).
fromordinal(n) ==
    LET n0   == n - 1
        n400 == n0 \div 146097
        r400 == n0 % 146097
        n100 == r400 \div 36524
        r100 == r400 % 36524
        n4   == r100 \div 1461
        r4   == r100 % 1461
        n1   == r4 \div 365
        r1   == r4 % 365
        y    == n400 * 400 + 1 + n100 * 100 + n4 * 4 + n1
    IN  IF n1 = 4 \/ n100 = 4
        THEN [year |-> y - 1, month |-> 12, day |-> 31]
        ELSE LET m == CHOOSE k \in 1..12 :
                          /\ DaysBeforeMonth(y, k) <= r1
                          /\ r1 < DaysBeforeMonth(y, k) + DaysInMonth(y, k)
             IN  [year |-> y, month |-> m, day |-> r1 - DaysBeforeMonth(y, m) + 1]

\* dt - date.resolution (one day): OverflowError before 0001-01-01.
MinusResolution(dt) ==
    IF toordinal(dt) - 1 >= 1 THEN Ret(fromordinal(toordinal(dt) - 1))
    ELSE Raise("OverflowError")

\* A date written without zero padding, "%d-%d-%d".
IsoformatUnpadded(dt) ==
    Decimal(dt.year) \o <<"-">> \o Decimal(dt.month) \o <<"-">> \o Decimal(dt.day)

\* date.isoformat(): "%04d-%02d-%02d".
isoformat(dt) ==
    ZFill(Decimal(dt.year), 4) \o <<"-">> \o ZFill(Decimal(dt.month), 2)
        \o <<"-">> \o ZFill(Decimal(dt.day), 2)

\* The HH:MM[:SS] of an ISO datetime string.
IsIsoTime(t) ==
    /\ Len(t) \in {5, 8}
    /\ t[3] = ":" /\ AllDigits(SubSeq(t, 1, 2)) /\ AllDigits(SubSeq(t, 4, 5))
    /\ ToInt(SubSeq(t, 1, 2)) <= 23 /\ ToInt(SubSeq(t, 4, 5)) <= 59
    /\ Len(t) = 8 =>
          /\ t[6] = ":" /\ AllDigits(SubSeq(t, 7, 8))
          /\ ToInt(SubSeq(t, 7, 8)) <= 59

\* datetime.fromisoformat(s).date() for YYYY-MM-DD, YYYYMMDD and
\* YYYY-MM-DD<sep>HH:MM[:SS]; ValueError for anything else.
fromisoformat(s) ==
    LET extended == /\ Len(s) >= 10
                    /\ s[5] = "-" /\ s[8] = "-"
                    /\ AllDigits(SubSeq(s, 1, 4))
                    /\ AllDigits(SubSeq(s, 6, 7))
                    /\ AllDigits(SubSeq(s, 9, 10))
                    /\ Len(s) > 10 => IsIsoTime(SubSeq(s, 12, Len(s)))
        basic    == Len(s) = 8 /\ AllDigits(s)
    IN  IF extended
        THEN DateNew(ToInt(SubSeq(s, 1, 4)), ToInt(SubSeq(s, 6, 7)), ToInt(SubSeq(s, 9, 10)))
        ELSE IF basic
        THEN DateNew(ToInt(SubSeq(s, 1, 4)), ToInt(SubSeq(s, 5, 6)), ToInt(SubSeq(s, 7, 8)))
        ELSE Raise("ValueError")

\* What strptime's regular expression of a directive matches.
MatchesDirective(dir, f) ==
    CASE dir = "%Y" -> Len(f) = 4 /\ AllDigits(f)
      [] dir = "%m" -> \/ Len(f) = 1 /\ AllDigits(f) /\ ToInt(f) >= 1
                       \/ Len(f) = 2 /\ AllDigits(f) /\ ToInt(f) >= 1 /\ ToInt(f) <= 12
      [] dir = "%d" -> \/ Len(f) = 1 /\ AllDigits(f) /\ ToInt(f) >= 1
                       \/ Len(f) = 2 /\ AllDigits(f) /\ ToInt(f) >= 1 /\ ToInt(f) <= 31
                       \/ Len(f) = 2 /\ f[1] = " " /\ IsDigit(f[2]) /\ DigitVal(f[2]) >= 1

FieldVal(f) == IF f[1] = " " THEN ToInt(Tail(f)) ELSE ToInt(f)

\* datetime.strptime(s, fmt).date() for a format of three directives and a separator.
strptime(s, fmt) ==
    LET f == Split(s, fmt.sep)
    IN  IF Len(f) = 3 /\ \A i \in 1..3 : MatchesDirective(fmt.dirs[i], f[i])
        THEN LET at(dir) == FieldVal(f[CHOOSE i \in 1..3 : fmt.dirs[i] = dir])
             IN  DateNew(at("%Y"), at("%m"), at("%d"))
        ELSE Raise("ValueError")

---------------------------------------------------------------------------
(* normalize_date *)

\* The formats tried in order after fromisoformat fails.
Formats ==
    << [dirs |-> <<"%d", "%m", "%Y">>, sep |-> "-"],
       [dirs |-> <<"%d", "%m", "%Y">>, sep |-> "/"],
       [dirs |-> <<"%Y", "%m", "%d">>, sep |-> "/"] >>

\* "Invalid date format. Use YYYY-MM-DD"
InvalidDateDetail ==
    << "I", "n", "v", "a", "l", "i", "d", " ", "d", "a",
       "t", "e", " ", "f", "o", "r", "m", "a", "t", ".",
       " ", "U", "s", "e", " ", "Y", "Y", "Y", "Y", "-",
       "M", "M", "-", "D", "D" >>

\* A loop over Formats that hands the input back when no format parses it.
TryFormatsLenient(d, i) ==
    LET parsing == {k \in i..Len(Formats) : strptime(d, Formats[k]).ok}
    IN  IF parsing = {} THEN Ret(d)
        ELSE Ret(isoformat(strptime(d, Formats[CHOOSE k \in parsing :
                                                  \A o \in parsing : k <= o]).val))

\* The for loop over Formats from index i: the first format that parses wins.
RECURSIVE TryFormats(_, _)
TryFormats(d, i) ==
    IF i > Len(Formats) THEN HTTPException(400, InvalidDateDetail)
    ELSE LET p == strptime(d, Formats[i])
         IN  IF p.ok THEN Ret(isoformat(p.val)) ELSE TryFormats(d, i + 1)

\* normalize_date(d), with date.today() = today.
normalize_date(d, today) ==
    IF d = <<>> THEN Ret(isoformat(today))
    ELSE LET p == fromisoformat(d)
         IN  IF p.ok THEN Ret(isoformat(p.val)) ELSE TryFormats(d, 1)

---------------------------------------------------------------------------
(* Month arithmetic *)

MonthNames ==
    <<"January", "February", "March", "April", "May", "June", "July",
      "August", "September", "October", "November", "December">>

\* month_bounds_and_label(any_date): (start_iso, end_iso, label).
month_bounds_and_label(any_date) ==
    LET p == fromisoformat(any_date)
    IN  IF ~p.ok THEN p
        ELSE LET d          == p.val
                 start      == [d EXCEPT !.day = 1]
                 next_month == IF start.month = 12
                               THEN DateNew(start.year + 1, 1, 1)
                               ELSE DateNew(start.year, start.month + 1, 1)
             IN  IF ~next_month.ok THEN next_month
                 ELSE LET end == MinusResolution(next_month.val)
                      IN  IF ~end.ok THEN end
                          ELSE Ret(<<isoformat(start), isoformat(end.val),
                                     <<MonthNames[start.month], start.year>> >>)

---------------------------------------------------------------------------
(* The date strings the checks draw from *)

\* How many years after 2023 are enumerated, besides the calendar's ends.
YearSpan == 2

pad2(n) == ZFill(Decimal(n), 2)

pad4(n) == ZFill(Decimal(n), 4)

\* A (year, month, day) triple, which need not be a date, written in one style.
Render(style, y, m, d) ==
    CASE style = "Y-m-d"   -> pad4(y) \o <<"-">> \o pad2(m) \o <<"-">> \o pad2(d)
      [] style = "Ymd"     -> pad4(y) \o pad2(m) \o pad2(d)
      [] style = "Y-m-dT"  -> pad4(y) \o <<"-">> \o pad2(m) \o <<"-">> \o pad2(d)
                                \o <<"T", "1", "0", ":", "3", "0">>
      [] style = "Y-m-d s" -> pad4(y) \o <<"-">> \o pad2(m) \o <<"-">> \o pad2(d)
                                \o <<" ", "2", "3", ":", "5", "9", ":", "5", "9">>
      [] style = "Y-m-dT25" -> pad4(y) \o <<"-">> \o pad2(m) \o <<"-">> \o pad2(d)
                                \o <<"T", "2", "5", ":", "0", "0">>
      [] style = "Y-m-dx"  -> pad4(y) \o <<"-">> \o pad2(m) \o <<"-">> \o pad2(d) \o <<"x">>
      [] style = "Y-m-d_"  -> pad4(y) \o <<"-">> \o pad2(m) \o <<"-">> \o pad2(d) \o <<" ">>
      [] style = "Y-M-D"   -> pad4(y) \o <<"-">> \o Decimal(m) \o <<"-">> \o Decimal(d)
      [] style = "d-m-Y"   -> pad2(d) \o <<"-">> \o pad2(m) \o <<"-">> \o pad4(y)
      [] style = "D-M-Y"   -> Decimal(d) \o <<"-">> \o Decimal(m) \o <<"-">> \o pad4(y)
      [] style = "d/m/Y"   -> pad2(d) \o <<"/">> \o pad2(m) \o <<"/">> \o pad4(y)
      [] style = "D/M/Y"   -> Decimal(d) \o <<"/">> \o Decimal(m) \o <<"/">> \o pad4(y)
      [] style = "_D/m/Y"  -> <<" ">> \o Decimal(d) \o <<"/">> \o pad2(m) \o <<"/">> \o pad4(y)
      [] style = "d/m/y"   -> pad2(d) \o <<"/">> \o pad2(m) \o <<"/">> \o pad2(y % 100)
      [] style = "Y/m/d"   -> pad4(y) \o <<"/">> \o pad2(m) \o <<"/">> \o pad2(d)
      [] style = "Y/M/D"   -> pad4(y) \o <<"/">> \o Decimal(m) \o <<"/">> \o Decimal(d)
      [] style = "d/m"     -> pad2(d) \o <<"/">> \o pad2(m)

Styles ==
    {"Y-m-d", "Ymd", "Y-m-dT", "Y-m-d s", "Y-m-dT25", "Y-m-dx", "Y-m-d_", "Y-M-D",
     "d-m-Y", "D-M-Y", "d/m/Y", "D/M/Y", "_D/m/Y", "d/m/y", "Y/m/d", "Y/M/D", "d/m"}

InputYears == {0, MINYEAR, 2024, 2025, 2023 + YearSpan, MAXYEAR, 12345}

InputMonths == {0, 1, 2, 10, 12, 13}

InputDays == {0, 1, 5, 28, 29, 30, 31, 32}

\* Arguments of normalize_date: dates and non-dates in accepted and other formats.
DateInputs ==
    {Render(st, y, m, d) : st \in Styles, y \in InputYears, m \in InputMonths, d \in InputDays}
        \cup {<<>>, <<"x">>, <<" ">>, <<"-">>, <<"/", "/">>}

\* The values date.today() takes.
Todays == {[year |-> 2023 + YearSpan, month |-> 12, day |-> 31],
           [year |-> 2024, month |-> 2, day |-> 29]}

\* Every day of the enumerated years, as month_bounds_and_label's caller passes it.
CheckedYears == {MINYEAR, 1900, 2000, MAXYEAR} \cup (2023..(2023 + YearSpan))

MonthInputs ==
    {isoformat([year |-> t[1], month |-> t[2], day |-> t[3]]) :
        t \in {u \in CheckedYears \X (1..12) \X (1..31) : u[3] <= DaysInMonth(u[1], u[2])}}

---------------------------------------------------------------------------
(* The state of the application while a pure function is exercised, and    *)
(* of the function calls while the application runs                        *)

AbsentSchema == [exists |-> FALSE, date_col |-> "", types |-> {}, range_check |-> FALSE]

NoResponse ==
    [op |-> "", status_code |-> 0, detail |-> <<>>, date |-> <<>>, body |-> <<>>]

NoRequest == [op |-> "", args |-> <<>>, before |-> {}]

AppIdle ==
    /\ phase = "down" /\ schema = AbsentSchema /\ rows = {} /\ seq = 0
    /\ staging = FALSE /\ resp = NoResponse /\ req = NoRequest

CallsIdle == d_arg = <<>> /\ d_ret = <<>>

---------------------------------------------------------------------------
(* normalize_date exercised on its own *)

InitNormalize == d_arg \in DateInputs /\ d_ret = <<>> /\ AppIdle

\* normalize_date(d_arg)
CallNormalize ==
    /\ Len(d_ret) = 0
    /\ \E today \in Todays : d_ret' = <<normalize_date(d_arg, today)>>
    /\ UNCHANGED <<d_arg, appVars>>

\* normalize_date(normalize_date(d_arg))
CallNormalizeAgain ==
    /\ Len(d_ret) = 1 /\ d_ret[1].ok
    /\ \E today \in Todays : d_ret' = Append(d_ret, normalize_date(d_ret[1].val, today))
    /\ UNCHANGED <<d_arg, appVars>>

NextNormalize == CallNormalize \/ CallNormalizeAgain

SpecNormalize == InitNormalize /\ [][NextNormalize]_vars

---------------------------------------------------------------------------
(* month_bounds_and_label exercised on its own *)

InitMonth == d_arg \in MonthInputs /\ d_ret = <<>> /\ AppIdle

\* month_bounds_and_label(d_arg)
CallMonthBounds ==
    /\ Len(d_ret) = 0
    /\ d_ret' = <<month_bounds_and_label(d_arg)>>
    /\ UNCHANGED <<d_arg, appVars>>

NextMonth == CallMonthBounds

SpecMonth == InitMonth /\ [][NextMonth]_vars

---------------------------------------------------------------------------
(* Claims about normalize_date (checked under SpecNormalize) *)

\* The Gregorian calendar as the claims speak of it.
LeapYear(y) == (y % 4 = 0 /\ y % 100 # 0) \/ y % 400 = 0

LastDayOfMonth(y, m) ==
    CASE m \in {1, 3, 5, 7, 8, 10, 12} -> 31
      [] m \in {4, 6, 9, 11}           -> 30
      [] m = 2                         -> IF LeapYear(y) THEN 29 ELSE 28

CalendarDates ==
    {t \in (InputYears \cap (1..9999)) \X (InputMonths \cap (1..12)) \X (InputDays \cap (1..31)) :
        t[3] <= LastDayOfMonth(t[1], t[2])}

\* The accepted formats: ISO date and datetime, DD-MM-YYYY, DD/MM/YYYY, YYYY/MM/DD.
AcceptedStyles ==
    {"Y-m-d", "Ymd", "Y-m-dT", "Y-m-d s", "d-m-Y", "D-M-Y", "d/m/Y", "D/M/Y", "_D/m/Y",
     "Y/m/d", "Y/M/D"}

\* Each accepted writing of a calendar date, with the YYYY-MM-DD writing of that date.
AcceptedPairs ==
    {<<Render(st, t[1], t[2], t[3]), Render("Y-m-d", t[1], t[2], t[3])>> :
        st \in AcceptedStyles \ {"_D/m/Y"}, t \in CalendarDates}
    \cup {<<Render("_D/m/Y", t[1], t[2], t[3]), Render("Y-m-d", t[1], t[2], t[3])>> :
        t \in {u \in CalendarDates : u[3] < 10}}

AcceptedInputs == {p[1] : p \in AcceptedPairs}

CanonicalDates == {p[2] : p \in AcceptedPairs}

\* C8: for a non-empty string in an accepted format normalize_date returns the
\* YYYY-MM-DD writing of the date it denotes, normalizing that result again
\* returns it unchanged, and a string already in YYYY-MM-DD form is returned as is.
C8_NormalizeIdempotent ==
    (d_arg \in AcceptedInputs /\ Len(d_ret) >= 1) =>
        /\ d_ret[1].ok
        /\ <<d_arg, d_ret[1].val>> \in AcceptedPairs
        /\ Len(d_ret) = 2 => d_ret[2] = d_ret[1]
        /\ d_arg \in CanonicalDates => d_ret[1].val = d_arg

\* "05/10/2025" was normalized twice, giving "2025-10-05" both times.
C8_Witness ==
    /\ d_arg = Render("d/m/Y", 2025, 10, 5)
    /\ Len(d_ret) = 2
    /\ d_ret[2].val = Render("Y-m-d", 2025, 10, 5)

\* The string s occurs in the string text.
Carries(text, s) ==
    \E i \in 1..(Len(text) - Len(s) + 1) : SubSeq(text, i, i + Len(s) - 1) = s

Unparsable == d_arg # <<>> /\ d_arg \notin AcceptedInputs

\* C9 as stated: for a non-empty string in no accepted format normalize_date
\* returns nothing and raises a 400 invalid-date-format error that carries the
\* offending input value.
C9_ErrorCarriesInput ==
    (Unparsable /\ Len(d_ret) >= 1) =>
        /\ ~d_ret[1].ok
        /\ d_ret[1].exc = "HTTPException" /\ d_ret[1].status_code = 400
        /\ Carries(d_ret[1].detail, d_arg)

\* C9 as amended: for a non-empty string in no accepted format normalize_date
\* returns nothing and raises HTTPException 400 whose detail is the fixed text
\* "Invalid date format. Use YYYY-MM-DD", whatever the input was.
C9_InvalidDateIs400 ==
    (Unparsable /\ Len(d_ret) >= 1) =>
        /\ Len(d_ret) = 1
        /\ d_ret[1] = HTTPException(400, InvalidDateDetail)

\* "2025-02-29" (no such day) was rejected.
C9_Witness ==
    /\ d_arg = Render("Y-m-d", 2025, 2, 29)
    /\ Len(d_ret) = 1
    /\ d_ret[1].status_code = 400

---------------------------------------------------------------------------
(* Claims about month_bounds_and_label (checked under SpecMonth) *)

ArgYear == ToInt(SubSeq(d_arg, 1, 4))

ArgMonth == ToInt(SubSeq(d_arg, 6, 7))

MonthBoundsAsClaimed ==
    /\ d_ret[1].ok
    /\ d_ret[1].val[1] = Render("Y-m-d", ArgYear, ArgMonth, 1)
    /\ d_ret[1].val[2] = Render("Y-m-d", ArgYear, ArgMonth, LastDayOfMonth(ArgYear, ArgMonth))
    /\ StrLeq(d_ret[1].val[1], d_arg) /\ StrLeq(d_arg, d_ret[1].val[2])

\* C2: for every valid calendar date d, month_bounds_and_label(d) returns
\* (start, end) with start <= d <= end, start the first day of d's month and
\* end its last calendar day (31 December for December, 29 or 28 February).
C2_MonthBounds == Len(d_ret) = 1 => MonthBoundsAsClaimed

\* The same for every date before December of MAXYEAR, where the first day of
\* the next month is still a date.
MonthBoundsBeforeLastMonth ==
    (Len(d_ret) = 1 /\ ~(ArgYear = MAXYEAR /\ ArgMonth = 12)) => MonthBoundsAsClaimed

\* In December of MAXYEAR date.replace(year=10000) raises ValueError.
LastMonthRaises ==
    (Len(d_ret) = 1 /\ ArgYear = MAXYEAR /\ ArgMonth = 12) =>
        d_ret[1] = Raise("ValueError")


---------------------------------------------------------------------------
(* Item types and money *)

Liquid == <<"l", "i", "q", "u", "i", "d">>

Solid == <<"s", "o", "l", "i", "d">>

Utility == <<"u", "t", "i", "l", "i", "t", "y">>

Fixed == <<"f", "i", "x", "e", "d">>

UpperCase ==
    <<"A", "B", "C", "D", "E", "F", "G", "H", "I", "J", "K", "L", "M",
      "N", "O", "P", "Q", "R", "S", "T", "U", "V", "W", "X", "Y", "Z">>

LowerCase ==
    <<"a", "b", "c", "d", "e", "f", "g", "h", "i", "j", "k", "l", "m",
      "n", "o", "p", "q", "r", "s", "t", "u", "v", "w", "x", "y", "z">>

\* str.lower()
lower(s) ==
    [i \in 1..Len(s) |->
        IF \E k \in 1..Len(UpperCase) : UpperCase[k] = s[i]
        THEN LowerCase[CHOOSE k \in 1..Len(UpperCase) : UpperCase[k] = s[i]]
        ELSE s[i]]

\* str.strip()
RECURSIVE strip(_)
strip(s) ==
    IF s = <<>> THEN s
    ELSE IF s[1] = " " THEN strip(Tail(s))
    ELSE IF s[Len(s)] = " " THEN strip(SubSeq(s, 1, Len(s) - 1))
    ELSE s

\* round(x, 2) of an amount counted in thousandths, in hundredths (ties to even).
round2(x) ==
    LET q == x \div 10
        r == x % 10
    IN  IF r < 5 THEN q
        ELSE IF r > 5 THEN q + 1
        ELSE IF q % 2 = 0 THEN q ELSE q + 1

\* The float 1.0 as a quantity (tenths).
OnePointZero == 10

---------------------------------------------------------------------------
(* The schema of table expenses, by what sqlite_master's sql text contains *)

\* init_db's CREATE TABLE.
CurrentSchema ==
    [exists |-> TRUE, date_col |-> "entry_date",
     types |-> {Liquid, Solid, Utility, Fixed}, range_check |-> TRUE]

\* A table whose only CHECKs are those on quantity and unit_price.
CheckOkRangeOnly(sch, r) == sch.range_check => (r.quantity >= 0 /\ r.unit_price >= 0)

\* The CHECK constraints of a table on a row to be inserted.
CheckOk(sch, r) ==
    /\ sch.types # {} => r.item_type \in sch.types
    /\ sch.range_check => (r.quantity >= 0 /\ r.unit_price >= 0)

\* init_db(): CREATE TABLE IF NOT EXISTS.
init_db(sch) == IF sch.exists THEN sch ELSE CurrentSchema

\* "entry_month" in table_sql and "entry_date" not in table_sql
needs_month_migration(sch) == sch.date_col = "entry_month" /\ sch.date_col # "entry_date"

\* "CHECK" in table_sql and "'fixed'" not in table_sql
needs_fixed_check(sch) == (sch.types # {} \/ sch.range_check) /\ Fixed \notin sch.types

\* An expenses_new whose CHECK on item_type still lacks 'fixed'.
NewTableSchemaWithoutFixed ==
    [exists |-> TRUE, date_col |-> "entry_date",
     types |-> {Liquid, Solid, Utility}, range_check |-> TRUE]

\* The schema of expenses_new, which is renamed to expenses.
NewTableSchema ==
    [exists |-> TRUE, date_col |-> "entry_date",
     types |-> {Liquid, Solid, Utility, Fixed}, range_check |-> TRUE]

\* substr(entry_month || '-01', 1, 10)
MonthToDate(entry_month) ==
    LET s == entry_month \o <<"-", "0", "1">>
    IN  SubSeq(s, 1, IF Len(s) < 10 THEN Len(s) ELSE 10)

MaxOf(S) == IF S = {} THEN 0 ELSE CHOOSE x \in S : \A y \in S : y <= x

\* The INSERT INTO expenses_new ... SELECT of either branch.
CopiedRows(sch, rs) ==
    IF needs_month_migration(sch)
    THEN {[id |-> r.id, entry_date |-> MonthToDate(r.entry_month), item_type |-> r.item_type,
           quantity |-> r.quantity, unit_price |-> r.unit_price] : r \in rs}
    ELSE rs

\* migrate_db_if_needed() on a database db = [schema, rows, seq, staging]:
\* the database it leaves and whether it raised.  When the copy violates a
\* constraint of expenses_new the INSERT raises; CREATE TABLE expenses_new was
\* committed on its own and the DROP of the finally block is rolled back when
\* the connection closes, so expenses_new stays behind.
migrate_db_if_needed(db) ==
    IF ~db.schema.exists THEN [db |-> db, raised |-> FALSE]
    ELSE IF ~needs_month_migration(db.schema) /\ ~needs_fixed_check(db.schema)
    THEN [db |-> db, raised |-> FALSE]
    ELSE LET copied == CopiedRows(db.schema, db.rows)
         IN  IF \A r \in copied : CheckOk(NewTableSchema, r)
             THEN [db |-> [schema |-> NewTableSchema, rows |-> copied,
                           seq |-> MaxOf({r.id : r \in copied}), staging |-> FALSE],
                   raised |-> FALSE]
             ELSE [db |-> [db EXCEPT !.staging = TRUE], raised |-> TRUE]

---------------------------------------------------------------------------
(* Queries *)

\* ORDER BY id DESC
RECURSIVE OrderByIdDesc(_)
OrderByIdDesc(rs) ==
    IF rs = {} THEN <<>>
    ELSE LET top == CHOOSE r \in rs : \A o \in rs : o.id <= r.id
         IN  <<top>> \o OrderByIdDesc(rs \ {top})

\* sum(r["quantity"] * r["unit_price"] for r in rows)
RECURSIVE SumProducts(_)
SumProducts(rowseq) ==
    IF rowseq = <<>> THEN 0
    ELSE Head(rowseq).quantity * Head(rowseq).unit_price + SumProducts(Tail(rowseq))

\* A fetch whose SELECT has no WHERE clause.
FetchWithoutWhere(rs, entry_date) ==
    LET found == OrderByIdDesc(rs)
    IN  <<found, SumProducts(found)>>

\* fetch_expenses_for_date(entry_date): (rows, total), the total unrounded.
fetch_expenses_for_date(rs, entry_date) ==
    LET found == OrderByIdDesc({r \in rs : r.entry_date = entry_date})
    IN  <<found, SumProducts(found)>>

\* SELECT SUM(quantity * unit_price) ... WHERE entry_date >= ? AND entry_date <= ?
\* (NULL, here <<>>, when no row matches).
SelectSumBetween(rs, start_s, end_s) ==
    LET found == {r \in rs : StrLeq(start_s, r.entry_date) /\ StrLeq(r.entry_date, end_s)}
    IN  IF found = {} THEN <<>> ELSE <<SumProducts(OrderByIdDesc(found))>>

\* month_total_for_date(any_date) up to its query: (start_s, end_s).
MonthRange(any_date) ==
    LET p == fromisoformat(any_date)
    IN  IF ~p.ok THEN p
        ELSE LET d          == p.val
                 start      == [d EXCEPT !.day = 1]
                 next_month == IF start.month = 12
                               THEN DateNew(start.year + 1, 1, 1)
                               ELSE DateNew(start.year, start.month + 1, 1)
             IN  IF ~next_month.ok THEN next_month
                 ELSE LET end == MinusResolution(next_month.val)
                      IN  IF ~end.ok THEN end
                          ELSE Ret(<<isoformat(start), isoformat(end.val)>>)

\* unit_for_type(item_type)
unit_for_type(item_type) ==
    IF item_type = Liquid THEN "L"
    ELSE IF item_type = Solid THEN "kg"
    ELSE IF item_type = Utility THEN "units"
    ELSE "fixed"

---------------------------------------------------------------------------
(* Error details *)

\* "quantity is required"
QuantityRequiredDetail ==
    << "q", "u", "a", "n", "t", "i", "t", "y", " ", "i",
       "s", " ", "r", "e", "q", "u", "i", "r", "e", "d" >>

\* "quantity and unit_price must be non-negative"
NonNegativeDetail ==
    << "q", "u", "a", "n", "t", "i", "t", "y", " ", "a",
       "n", "d", " ", "u", "n", "i", "t", "_", "p", "r",
       "i", "c", "e", " ", "m", "u", "s", "t", " ", "b",
       "e", " ", "n", "o", "n", "-", "n", "e", "g", "a",
       "t", "i", "v", "e" >>

---------------------------------------------------------------------------
(* The inputs the handlers are driven with *)

\* Rows a database file holds before the process first starts with it.
MaxInitRows == 1

\* The ids AUTOINCREMENT hands out in a run of the model.
MaxId == 2

D_Feb01 == Render("Y-m-d", 2024, 2, 1)

D_Feb29 == Render("Y-m-d", 2024, 2, 29)

D_Mar01 == Render("Y-m-d", 2024, 3, 1)

D_Last == Render("Y-m-d", MAXYEAR, 12, 31)

\* entry_date form values: "29/02/2024", and "2025-02-29", which no format accepts.
EntryDateInputs == {Render("d/m/Y", 2024, 2, 29), Render("Y-m-d", 2025, 2, 29)}

\* ?date= query values: absent, or a string.
QueryDateInputs ==
    {<<>>, <<Render("Y-m-d", 2024, 2, 10)>>, <<Render("Y/M/D", 2024, 3, 1)>>,
     <<D_Last>>, <<(<<"x">>)>>}

ItemTypeSolidPadded == <<" ", "S", "o", "l", "i", "d", " ">>

ItemTypeFixedUpper == <<"F", "I", "X", "E", "D">>

ItemTypeBonus == <<"b", "o", "n", "u", "s">>

\* item_type form values: absent, "liquid", " Solid ", "FIXED", "bonus".
ItemTypeInputs ==
    {<<>>, <<Liquid>>, <<ItemTypeSolidPadded>>, <<ItemTypeFixedUpper>>, <<ItemTypeBonus>>}

\* quantity form values (tenths): absent, -0.5, 1.0.
QuantityInputs == {<<>>, <<-5>>, <<10>>}

\* unit_price form values (hundredths): -0.05, 1.25.
UnitPriceInputs == {-5, 125}

LegacyTypes == {Liquid, Solid, Utility}

\* The legacy table whose CHECK on item_type lacks 'fixed'.
LegacyCheckSchema == [CurrentSchema EXCEPT !.types = LegacyTypes]

\* The legacy month-based table, created before or after 'fixed' was allowed.
LegacyMonthSchemas ==
    {[CurrentSchema EXCEPT !.date_col = "entry_month", !.types = ts] :
        ts \in {LegacyTypes, CurrentSchema.types}}

InitSchemas == {AbsentSchema, CurrentSchema, LegacyCheckSchema} \cup LegacyMonthSchemas

\* The rows (without id) a table of schema sch holds at first: 1.5 units at 1.25
\* in February or March 2024, liquid or (where allowed) fixed.
RowBodies(sch) ==
    IF sch.date_col = "entry_month"
    THEN {[entry_month |-> SubSeq(dt, 1, 7), item_type |-> t, quantity |-> 15, unit_price |-> 125] :
            dt \in {D_Feb01, D_Mar01}, t \in {Liquid, Fixed} \cap sch.types}
    ELSE {[entry_date |-> dt, item_type |-> t, quantity |-> 15, unit_price |-> 125] :
            dt \in {D_Feb29, D_Mar01}, t \in {Liquid, Fixed} \cap sch.types}

WithId(body, i) ==
    IF "entry_month" \in DOMAIN body
    THEN [id |-> i, entry_month |-> body.entry_month, item_type |-> body.item_type,
          quantity |-> body.quantity, unit_price |-> body.unit_price]
    ELSE [id |-> i, entry_date |-> body.entry_date, item_type |-> body.item_type,
          quantity |-> body.quantity, unit_price |-> body.unit_price]

\* The tables of schema sch with rows 1..n, n <= MaxInitRows.
InitTables(sch) ==
    IF ~sch.exists THEN {{}}
    ELSE UNION {{{WithId(f[i], i) : i \in 1..n} : f \in [1..n -> RowBodies(sch)]} :
                   n \in 0..MaxInitRows}

Ids(rs) == {r.id : r \in rs}

\* date.today() matters to normalize_date only when no date is given.
TodaysFor(d) == IF d = <<>> THEN Todays ELSE {CHOOSE t \in Todays : TRUE}

\* normalize_date on the handlers' inputs, evaluated once per input.
HandlerDates == EntryDateInputs \cup {<<>>} \cup {d[1] : d \in QueryDateInputs \ {<<>>}}

NormalizeMemo == {<<d, t, normalize_date(d, t)>> : d \in HandlerDates, t \in Todays}

Normalized(d, today) == (CHOOSE m \in NormalizeMemo : m[1] = d /\ m[2] = today)[3]

\* The dates normalize_date hands to the handlers.
NormalizedDates == {m[3].val : m \in {n \in NormalizeMemo : n[3].ok}}

\* The month arithmetic on those dates, evaluated once per date.
MonthRangeMemo == {<<d, MonthRange(d)>> : d \in NormalizedDates}

MonthRangeOf(any_date) == (CHOOSE m \in MonthRangeMemo : m[1] = any_date)[2]

MonthBoundsMemo == {<<d, month_bounds_and_label(d)>> : d \in NormalizedDates}

MonthBoundsOf(any_date) == (CHOOSE m \in MonthBoundsMemo : m[1] = any_date)[2]

\* month_total_for_date(any_date)
month_total_for_date(rs, any_date) ==
    LET range == MonthRangeOf(any_date)
    IN  IF ~range.ok THEN range
        ELSE LET row == SelectSumBetween(rs, range.val[1], range.val[2])
             IN  Ret(round2(IF row # <<>> THEN row[1] ELSE 0))

\* (item_type or "utility").lower().strip() on the handlers' inputs, likewise.
ItemTypeMemo ==
    {<<t, strip(lower(IF t = <<>> \/ t[1] = <<>> THEN Utility ELSE t[1]))>> :
        t \in ItemTypeInputs}

LoweredStripped(item_type) == (CHOOSE m \in ItemTypeMemo : m[1] = item_type)[2]

---------------------------------------------------------------------------
(* The application *)

Response(op, code, detail, date, body) ==
    [op |-> op, status_code |-> code, detail |-> detail, date |-> date, body |-> body]

\* An uncaught exception: the server answers 500.
InternalServerError(op, date, exc) == Response(op, 500, <<>>, date, exc)

Init ==
    /\ phase = "down"
    /\ schema \in InitSchemas
    /\ rows \in InitTables(schema)
    /\ seq = MaxOf(Ids(rows))
    /\ staging = FALSE
    /\ resp = NoResponse
    /\ req = NoRequest
    /\ CallsIdle

\* on_startup(): init_db(); migrate_db_if_needed().  An exception ends the start.
on_startup ==
    /\ phase = "down"
    /\ LET created == init_db(schema)
           m == migrate_db_if_needed([schema |-> created, rows |-> rows,
                                      seq |-> seq, staging |-> staging])
       IN  /\ schema' = m.db.schema
           /\ rows' = m.db.rows
           /\ seq' = m.db.seq
           /\ staging' = m.db.staging
           /\ phase' = IF m.raised THEN "failed" ELSE "serving"
           /\ resp' = Response("startup", 0, <<>>, <<>>,
                               [again |-> resp.op = "shutdown",
                                needed |-> needs_month_migration(created)
                                              \/ needs_fixed_check(created)])
    /\ UNCHANGED dateVars

\* The process ends; the database file stays.
Shutdown ==
    /\ phase \in {"serving", "failed"}
    /\ phase' = "down"
    /\ resp' = Response("shutdown", 0, <<>>, <<>>, <<>>)
    /\ UNCHANGED <<schema, rows, seq, staging, dateVars>>

\* A quantity that is never defaulted.
QuantityAsGiven(item_type, quantity) == quantity

\* if item_type in ("fixed", "utility", "solid") and quantity is None: quantity = 1.0
DefaultQuantity(item_type, quantity) ==
    IF item_type \in {Fixed, Utility, Solid} /\ quantity = <<>>
    THEN <<OnePointZero>> ELSE quantity

\* POST /add
add_item(item_type, quantity, unit_price, entry_date, today) ==
    /\ phase = "serving"
    /\ seq < MaxId
    /\ LET nd  == Normalized(entry_date, today)
           ty  == LoweredStripped(item_type)
           qty == DefaultQuantity(ty, quantity)
       IN  IF ~nd.ok
           THEN /\ resp' = Response("add", nd.status_code, nd.detail, <<>>, <<>>)
                /\ UNCHANGED <<rows, seq>>
           ELSE IF qty = <<>>
           THEN /\ resp' = Response("add", 400, QuantityRequiredDetail, <<>>, <<>>)
                /\ UNCHANGED <<rows, seq>>
           ELSE IF qty[1] < 0 \/ unit_price < 0
           THEN /\ resp' = Response("add", 400, NonNegativeDetail, <<>>, <<>>)
                /\ UNCHANGED <<rows, seq>>
           ELSE LET row == [id |-> seq + 1, entry_date |-> nd.val, item_type |-> ty,
                            quantity |-> qty[1], unit_price |-> unit_price]
                IN  IF ~CheckOk(schema, row)
                    THEN /\ resp' = InternalServerError("add", <<>>, "IntegrityError")
                         /\ UNCHANGED <<rows, seq>>
                    ELSE /\ rows' = rows \cup {row}
                         /\ seq' = seq + 1
                         /\ resp' = Response("add", 303, <<>>, nd.val, <<>>)
    /\ UNCHANGED <<phase, schema, staging, dateVars>>

\* A DELETE that also removes the rows of smaller id.
DeleteUpToId(rs, item_id) == {r \in rs : r.id > item_id}

\* DELETE FROM expenses WHERE id = ?
DeleteWhereId(rs, item_id) == {r \in rs : r.id # item_id}

\* POST /delete/{item_id}: the DELETE is committed, then entry_date is normalized.
delete_item(item_id, entry_date, today) ==
    /\ phase = "serving"
    /\ rows' = DeleteWhereId(rows, item_id)
    /\ LET nd == Normalized(entry_date, today)
       IN  resp' = IF nd.ok THEN Response("delete", 303, <<>>, nd.val, <<>>)
                   ELSE Response("delete", nd.status_code, nd.detail, <<>>, <<>>)
    /\ UNCHANGED <<phase, schema, seq, staging, dateVars>>

\* The "items" of /api/expenses and the item dicts of the daily view.
ItemDicts(rowseq) ==
    [i \in 1..Len(rowseq) |->
        [id |-> rowseq[i].id, date |-> rowseq[i].entry_date,
         item_type |-> rowseq[i].item_type, quantity |-> rowseq[i].quantity,
         unit |-> unit_for_type(rowseq[i].item_type), unit_price |-> rowseq[i].unit_price,
         line_total |-> round2(rowseq[i].quantity * rowseq[i].unit_price)]]

RECURSIVE SumLineTotals(_)
SumLineTotals(items) ==
    IF items = <<>> THEN 0 ELSE Head(items).line_total + SumLineTotals(Tail(items))

\* GET /api/expenses
api_get_expenses(d, today) ==
    /\ phase = "serving"
    /\ LET nd == Normalized(IF d = <<>> THEN <<>> ELSE d[1], today)
       IN  IF ~nd.ok
           THEN resp' = Response("api_expenses", nd.status_code, nd.detail, <<>>, <<>>)
           ELSE LET f == fetch_expenses_for_date(rows, nd.val)
                IN  resp' = Response("api_expenses", 200, <<>>, nd.val,
                                     [items |-> ItemDicts(f[1]), total |-> round2(f[2])])
    /\ UNCHANGED <<phase, schema, rows, seq, staging, dateVars>>

\* GET /api/total
api_get_total(d, today) ==
    /\ phase = "serving"
    /\ LET nd == Normalized(IF d = <<>> THEN <<>> ELSE d[1], today)
       IN  IF ~nd.ok
           THEN resp' = Response("api_total", nd.status_code, nd.detail, <<>>, <<>>)
           ELSE LET f == fetch_expenses_for_date(rows, nd.val)
                IN  resp' = Response("api_total", 200, <<>>, nd.val,
                                     [total |-> round2(f[2])])
    /\ UNCHANGED <<phase, schema, rows, seq, staging, dateVars>>

\* GET /
index(d, today) ==
    /\ phase = "serving"
    /\ LET nd == Normalized(IF d = <<>> THEN <<>> ELSE d[1], today)
       IN  IF ~nd.ok
           THEN resp' = Response("index", nd.status_code, nd.detail, <<>>, <<>>)
           ELSE LET f     == fetch_expenses_for_date(rows, nd.val)
                    items == ItemDicts(f[1])
                    fixed_total == SumLineTotals(SelectSeq(items, LAMBDA it : it.item_type = Fixed))
                    daily_total == SumLineTotals(SelectSeq(items, LAMBDA it : it.item_type # Fixed))
                    month_total == month_total_for_date(rows, nd.val)
                    bounds      == MonthBoundsOf(nd.val)
                IN  IF ~month_total.ok
                    THEN resp' = InternalServerError("index", nd.val, month_total.exc)
                    ELSE IF ~bounds.ok
                    THEN resp' = InternalServerError("index", nd.val, bounds.exc)
                    ELSE resp' = Response("index", 200, <<>>, nd.val,
                                          [fixed_total |-> fixed_total,
                                           daily_total |-> daily_total,
                                           total |-> fixed_total + daily_total,
                                           month_total |-> month_total.val,
                                           month_label |-> bounds.val[3]])
    /\ UNCHANGED <<phase, schema, rows, seq, staging, dateVars>>

\* ORDER BY entry_date ASC, id ASC
RECURSIVE OrderByDateIdAsc(_)
OrderByDateIdAsc(rs) ==
    IF rs = {} THEN <<>>
    ELSE LET first == CHOOSE r \in rs : \A o \in rs :
                          \/ StrLess(r.entry_date, o.entry_date)
                          \/ r.entry_date = o.entry_date /\ r.id <= o.id
         IN  <<first>> \o OrderByDateIdAsc(rs \ {first})

\* GET /download/month: the CSV lines after the header, and the month label.
download_month(d, today) ==
    /\ phase = "serving"
    /\ LET nd == Normalized(IF d = <<>> THEN <<>> ELSE d[1], today)
       IN  IF ~nd.ok
           THEN resp' = Response("download", nd.status_code, nd.detail, <<>>, <<>>)
           ELSE LET bounds == MonthBoundsOf(nd.val)
                IN  IF ~bounds.ok
                    THEN resp' = InternalServerError("download", nd.val, bounds.exc)
                    ELSE LET found == OrderByDateIdAsc(
                                          {r \in rows : /\ StrLeq(bounds.val[1], r.entry_date)
                                                        /\ StrLeq(r.entry_date, bounds.val[2])})
                         IN  resp' = Response("download", 200, <<>>, nd.val,
                                  [lines |-> [i \in 1..Len(found) |->
                                                 <<found[i].entry_date, found[i].item_type,
                                                   found[i].quantity, found[i].unit_price,
                                                   round2(found[i].quantity * found[i].unit_price)>>],
                                   month_label |-> bounds.val[3]])
    /\ UNCHANGED <<phase, schema, rows, seq, staging, dateVars>>

\* The request a handler serves, with the rows it finds.
Request(op, args) == [op |-> op, args |-> args, before |-> rows]

Next ==
    \/ on_startup /\ UNCHANGED req
    \/ Shutdown /\ UNCHANGED req
    \/ \E ty \in ItemTypeInputs, q \in QuantityInputs, p \in UnitPriceInputs,
          ed \in EntryDateInputs : \E today \in TodaysFor(ed) :
              add_item(ty, q, p, ed, today) /\ UNCHANGED req
    \/ \E i \in 1..(MaxId + 1), ed \in EntryDateInputs : \E today \in TodaysFor(ed) :
          delete_item(i, ed, today) /\ UNCHANGED req
    \/ \E d \in QueryDateInputs : \E today \in TodaysFor(d) :
          api_get_expenses(d, today) /\ UNCHANGED req
    \/ \E d \in QueryDateInputs : \E today \in TodaysFor(d) :
          api_get_total(d, today) /\ UNCHANGED req
    \/ \E d \in QueryDateInputs : \E today \in TodaysFor(d) :
          index(d, today) /\ UNCHANGED req
    \/ \E d \in QueryDateInputs : \E today \in TodaysFor(d) :
          download_month(d, today) /\ UNCHANGED req

Spec == Init /\ [][Next]_vars

\* The same application with the history variable req kept.
NextLogged ==
    \/ on_startup /\ req' = Request("startup", <<>>)
    \/ Shutdown /\ req' = Request("shutdown", <<>>)
    \/ \E ty \in ItemTypeInputs, q \in QuantityInputs, p \in UnitPriceInputs,
          ed \in EntryDateInputs : \E today \in TodaysFor(ed) :
              /\ add_item(ty, q, p, ed, today)
              /\ req' = Request("add", [item_type |-> ty, quantity |-> q,
                                        unit_price |-> p, entry_date |-> ed])
    \/ \E i \in 1..(MaxId + 1), ed \in EntryDateInputs : \E today \in TodaysFor(ed) :
          /\ delete_item(i, ed, today)
          /\ req' = Request("delete", [item_id |-> i, entry_date |-> ed])
    \/ \E d \in QueryDateInputs : \E today \in TodaysFor(d) :
          api_get_expenses(d, today) /\ req' = Request("api_expenses", d)
    \/ \E d \in QueryDateInputs : \E today \in TodaysFor(d) :
          api_get_total(d, today) /\ req' = Request("api_total", d)
    \/ \E d \in QueryDateInputs : \E today \in TodaysFor(d) :
          index(d, today) /\ req' = Request("index", d)
    \/ \E d \in QueryDateInputs : \E today \in TodaysFor(d) :
          download_month(d, today) /\ req' = Request("download", d)

SpecLogged == Init /\ [][NextLogged]_vars

---------------------------------------------------------------------------
(* Claims about the stored rows and the totals (checked under Spec) *)

\* The rows as the claims speak of them: those of a date, those of a month.
RowsOn(D) == {r \in rows : r.entry_date = D}

RowsInMonthOf(D) == {r \in rows : SubSeq(r.entry_date, 1, 7) = SubSeq(D, 1, 7)}

\* The sum of quantity * unit_price over a set of rows, each counted once.
RECURSIVE SumOver(_)
SumOver(S) ==
    IF S = {} THEN 0
    ELSE LET r == CHOOSE x \in S : TRUE
         IN  r.quantity * r.unit_price + SumOver(S \ {r})

\* C1: the total /api/total and /api/expenses report for a date D is, rounded
\* to 2 decimals, the sum of quantity * unit_price over exactly the rows now
\* stored with entry_date = D; no other row contributes.
C1_DailyTotal ==
    (resp.op \in {"api_total", "api_expenses"} /\ resp.status_code = 200) =>
        resp.body.total = round2(SumOver(RowsOn(resp.date)))

\* /api/total answered for a date that has a row while another date has one too.
C1_Witness ==
    /\ resp.op = "api_total" /\ resp.status_code = 200
    /\ RowsOn(resp.date) # {}
    /\ rows \ RowsOn(resp.date) # {}
    /\ resp.body.total > 0

\* C1 also where two rows share the date: 1.875 + 1.25 is reported as 3.12.
DailyTotalOfTwoRows ==
    (resp.op = "api_expenses" /\ resp.status_code = 200 /\ Cardinality(RowsOn(resp.date)) = 2) =>
        /\ Len(resp.body.items) = 2
        /\ resp.body.total = round2(SumOver(RowsOn(resp.date)))

\* C3: for any date d, month_total_for_date(d) is the rounded sum of
\* quantity * unit_price over exactly the stored rows of d's calendar month,
\* 'fixed' rows included, and 0.0 when the month has no row.
C3_MonthTotal ==
    (resp.op = "index" /\ resp.date # <<>>) =>
        /\ resp.status_code = 200
        /\ resp.body.month_total = round2(SumOver(RowsInMonthOf(resp.date)))

\* The same for every month before December of MAXYEAR.
MonthTotalBeforeLastMonth ==
    (resp.op = "index" /\ resp.date # <<>> /\ SubSeq(resp.date, 1, 7) # SubSeq(D_Last, 1, 7)) =>
        /\ resp.status_code = 200
        /\ resp.body.month_total = round2(SumOver(RowsInMonthOf(resp.date)))

\* In December of MAXYEAR the daily view is answered with a server error.
LastMonthTotalRaises ==
    (resp.op = "index" /\ resp.date # <<>> /\ SubSeq(resp.date, 1, 7) = SubSeq(D_Last, 1, 7)) =>
        resp.status_code = 500 /\ resp.body = "ValueError"

\* A YYYY-MM-DD string that names a day of the calendar.
IsCanonicalDate(s) ==
    /\ Len(s) = 10 /\ s[5] = "-" /\ s[8] = "-"
    /\ \A i \in {1, 2, 3, 4, 6, 7, 9, 10} : IsDigit(s[i])
    /\ LET y == ToInt(SubSeq(s, 1, 4))
           m == ToInt(SubSeq(s, 6, 7))
           d == ToInt(SubSeq(s, 9, 10))
       IN  y >= 1 /\ m \in 1..12 /\ d >= 1 /\ d <= LastDayOfMonth(y, m)

\* C4: once the application has started, every stored row has quantity >= 0,
\* unit_price >= 0, an item_type among liquid, solid, utility and fixed, and an
\* entry_date that is a calendar date in YYYY-MM-DD form.
C4_RowInvariants ==
    phase = "serving" =>
        \A r \in rows :
            /\ r.quantity >= 0
            /\ r.unit_price >= 0
            /\ r.item_type \in {Liquid, Solid, Utility, Fixed}
            /\ IsCanonicalDate(r.entry_date)

\* An /add of type "bonus" was refused by the table while a row was stored.
C4_Witness ==
    /\ resp.op = "add" /\ resp.status_code = 500
    /\ rows # {}

\* C7: after a start neither detection condition holds, and starting again on
\* the database a previous process left changes neither schema nor rows.
C7_MigrationIdempotent ==
    /\ [](phase = "serving" =>
            ~needs_month_migration(schema) /\ ~needs_fixed_check(schema))
    /\ [][(phase = "down" /\ resp.op = "shutdown" /\ phase' # "down") =>
            /\ phase' = "serving"
            /\ schema' = schema /\ rows' = rows /\ seq' = seq /\ staging' = staging
            /\ ~resp'.body.needed]_vars

\* The application started a second time on a table migrated from entry_month.
C7_Witness ==
    /\ phase = "serving"
    /\ resp.op = "startup" /\ resp.body.again
    /\ \E r \in rows : r.entry_date = D_Feb01

\* C10: an /add or /delete answered with 400 leaves the table unchanged.
C10_ClientErrorLeavesTable ==
    [][(resp'.op \in {"add", "delete"} /\ resp'.status_code = 400) => rows' = rows]_vars

\* The same for /add alone, whose checks all precede the INSERT.
AddClientErrorLeavesTable ==
    [][(resp'.op = "add" /\ resp'.status_code = 400) => rows' = rows /\ seq' = seq]_vars

---------------------------------------------------------------------------
(* Claims about single requests (checked under SpecLogged) *)

\* What the claims take a form value to mean.
TypeMeant(item_type) ==
    CASE item_type = <<>>                      -> Utility
      [] item_type = <<ItemTypeSolidPadded>>   -> Solid
      [] item_type = <<ItemTypeFixedUpper>>    -> Fixed
      [] OTHER                                 -> item_type[1]

\* The date an entry_date form value is accepted as, if it is.
DateMeant(entry_date) ==
    IF entry_date = Render("d/m/Y", 2024, 2, 29) THEN <<D_Feb29>> ELSE <<>>

LiquidWithoutQuantityRefused ==
    /\ req.op = "add" /\ req.args.quantity = <<>> /\ req.args.item_type = <<Liquid>>
    /\ resp.status_code = 400 /\ resp.detail = QuantityRequiredDetail

====
